---- MODULE Spec2Model ----
(***************************************************************************)
(* bing.py: daily Bing image archive.  One run of the script fetches the   *)
(* XML image feed, downloads and EXIF-stamps every image not yet on disk,  *)
(* and (unless --download is given) rebuilds the static site from the      *)
(* images directory: thumbnails, day pages, month pages and the home page. *)
(*                                                                         *)
(* Text is modelled as sequences of one-character strings, so that the     *)
(* parsing and formatting steps of the script are computed, not assumed.   *)
(***************************************************************************)
EXTENDS Integers, Sequences, FiniteSets, TLC

\* Number of runs of the script that are explored.
MaxRuns == 2
\* Number of failures (I/O errors, kills) injected over all runs.
MaxFaults == 2

----------------------------------------------------------------------------
\* Text helpers

Digit == <<"0", "1", "2", "3", "4", "5", "6", "7", "8", "9">>

DigitChars == {Digit[n] : n \in 1..10}

DigitVal(c) == CHOOSE n \in 0..9 : Digit[n + 1] = c

\* Character i of s, or "" past the end.
At(s, i) == IF i >= 1 /\ i <= Len(s) THEN s[i] ELSE ""

RECURSIVE Num(_)
\* int() of a string of digits.
Num(s) == IF s = <<>> THEN 0 ELSE 10 * Num(SubSeq(s, 1, Len(s) - 1)) + DigitVal(s[Len(s)])

RECURSIVE Str(_)
\* str(n) for n >= 0.
Str(n) == IF n < 10 THEN <<Digit[n + 1]>> ELSE Str(n \div 10) \o <<Digit[(n % 10) + 1]>>

\* f"{n:02d}"
Fmt02d(n) == IF n < 10 THEN <<"0">> \o Str(n) ELSE Str(n)

\* Position of the first occurrence of sub in s at or after position from; 0 if none.
Find(s, sub, from) ==
    LET hits == {p \in from..(Len(s) - Len(sub) + 1) : SubSeq(s, p, p + Len(sub) - 1) = sub}
    IN IF hits = {} THEN 0 ELSE CHOOSE p \in hits : \A q \in hits : p <= q

\* Only the first occurrence replaced.
ReplaceFirst(s, old, new) ==
    LET p == Find(s, old, 1)
    IN IF p = 0 THEN s
       ELSE SubSeq(s, 1, p - 1) \o new \o SubSeq(s, p + Len(old), Len(s))

RECURSIVE Replace(_, _, _)
\* str.replace(old, new): every non-overlapping occurrence, left to right.
Replace(s, old, new) ==
    LET p == Find(s, old, 1)
    IN IF p = 0 THEN s
       ELSE SubSeq(s, 1, p - 1) \o new \o Replace(SubSeq(s, p + Len(old), Len(s)), old, new)

RECURSIVE Split(_, _)
\* str.split(sep) for a one-character separator: the list of parts.
Split(s, sep) ==
    LET p == Find(s, <<sep>>, 1)
    IN IF p = 0 THEN <<s>>
       ELSE <<SubSeq(s, 1, p - 1)>> \o Split(SubSeq(s, p + 1, Len(s)), sep)

RECURSIVE LStrip(_, _)
LStrip(s, chars) == IF s # <<>> /\ s[1] \in chars THEN LStrip(Tail(s), chars) ELSE s

RECURSIVE RStrip(_, _)
RStrip(s, chars) ==
    IF s # <<>> /\ s[Len(s)] \in chars THEN RStrip(SubSeq(s, 1, Len(s) - 1), chars) ELSE s

\* Only the left end stripped.
StripLeftOnly(s, chars) == LStrip(s, chars)

\* str.strip(chars)
Strip(s, chars) == RStrip(LStrip(s, chars), chars)

RECURSIVE LexLess(_, _)
\* a < b for strings of digits and letters compared character by character.
LexLess(a, b) ==
    IF b = <<>> THEN FALSE
    ELSE IF a = <<>> THEN TRUE
    ELSE IF a[1] = b[1] THEN LexLess(Tail(a), Tail(b))
    ELSE IF a[1] \in DigitChars /\ b[1] \in DigitChars THEN DigitVal(a[1]) < DigitVal(b[1])
    ELSE a[1] \in DigitChars

----------------------------------------------------------------------------
\* time.strptime(text, "%Y%m%d") and time.strftime

\* Raised exceptions are values of their own.
ValueError == [error |-> "ValueError"]

NonZero == DigitChars \ {"0"}

\* Lengths the %m directive can consume at position p, in the order tried:
\* 1[0-2] | 0[1-9] | [1-9]
MonthTries(s, p) ==
    (IF At(s, p) = "1" /\ At(s, p + 1) \in {"0", "1", "2"} THEN <<2>> ELSE <<>>)
    \o (IF At(s, p) = "0" /\ At(s, p + 1) \in NonZero THEN <<2>> ELSE <<>>)
    \o (IF At(s, p) \in NonZero THEN <<1>> ELSE <<>>)

\* Lengths the %d directive can consume at position p, in the order tried:
\* 3[01] | [12]\d | 0[1-9] | [1-9] | " "[1-9]
DayTries(s, p) ==
    (IF At(s, p) = "3" /\ At(s, p + 1) \in {"0", "1"} THEN <<2>> ELSE <<>>)
    \o (IF At(s, p) \in {"1", "2"} /\ At(s, p + 1) \in DigitChars THEN <<2>> ELSE <<>>)
    \o (IF At(s, p) = "0" /\ At(s, p + 1) \in NonZero THEN <<2>> ELSE <<>>)
    \o (IF At(s, p) \in NonZero THEN <<1>> ELSE <<>>)
    \o (IF At(s, p) = " " /\ At(s, p + 1) \in NonZero THEN <<2>> ELSE <<>>)

IsLeap(y) == (y % 4 = 0 /\ y % 100 # 0) \/ y % 400 = 0

DaysInMonth(y, m) ==
    IF m = 2 THEN (IF IsLeap(y) THEN 29 ELSE 28)
    ELSE IF m \in {4, 6, 9, 11} THEN 30 ELSE 31

\* The struct_time of text, or ValueError: the regular expression of the
\* format is matched at the start of text (first alternative that lets the
\* rest match), must consume all of it, and the day must exist in the month.
strptime(text) ==
    IF ~(\A p \in 1..4 : At(text, p) \in DigitChars) THEN ValueError
    ELSE
      LET ms == MonthTries(text, 5)
          ok == {n \in 1..Len(ms) : DayTries(text, 5 + ms[n]) # <<>>}
      IN IF ok = {} THEN ValueError
         ELSE
           LET n  == CHOOSE x \in ok : \A z \in ok : x <= z
               ml == ms[n]
               dl == Head(DayTries(text, 5 + ml))
               y  == Num(SubSeq(text, 1, 4))
               m  == Num(SubSeq(text, 5, 4 + ml))
               d  == Num(Strip(SubSeq(text, 5 + ml, 4 + ml + dl), {" "}))
           IN IF 4 + ml + dl # Len(text) THEN ValueError
              ELSE IF y < 1 \/ d > DaysInMonth(y, m) THEN ValueError
              ELSE [tm_year |-> y, tm_mon |-> m, tm_mday |-> d]

\* time.strftime("%Y%m%d", t)
strftime(t) == Str(t.tm_year) \o Fmt02d(t.tm_mon) \o Fmt02d(t.tm_mday)

----------------------------------------------------------------------------
\* Values

\* Python's None.
None == [none |-> TRUE]

IndexError == [error |-> "IndexError"]

KeyError == [error |-> "KeyError"]

AttributeError == [error |-> "AttributeError"]

OSError == [error |-> "OSError"]

IsError(v) == "error" \in DOMAIN v

\* The size token of the feed's image URLs and its replacement.
SizeToken == <<"1", "9", "2", "0", "x", "1", "0", "8", "0", ".", "j", "p", "g">>

UHDToken == <<"U", "H", "D", ".", "j", "p", "g">>

BingHost == <<"h", "t", "t", "p", "s", ":", "/", "/", "b", "i", "n", "g">>

Jpg == <<".", "j", "p", "g">>

Webp == <<".", "w", "e", "b", "p">>

Html == <<".", "h", "t", "m", "l">>

IndexHtml == <<"i", "n", "d", "e", "x">> \o Html

\* The EXIF data of a file that carries no tags: an empty "0th" IFD.
NoExif == [ifd |-> "0th"]

\* Bytes of a download that stopped part-way.
Truncated == <<"t", "r", "u", "n", "c">>

----------------------------------------------------------------------------
\* The feed documents a run can receive

\* An <image> element: its child elements and their text.
Image(startdate, url, copyright) ==
    [tag |-> "image",
     children |-> [startdate |-> startdate, url |-> url, copyright |-> copyright]]

\* The <tooltips> child that closes the root element of the feed.
Tooltips == [tag |-> "tooltips", children |-> [loading |-> <<>>]]

Caption(t, a) == <<"(", t, " ", "©", " ", a, ")">>

E1231 == Image(<<"2", "0", "2", "3", "1", "2", "3", "1">>,
               <<"/", "z", "_">> \o SizeToken, Caption("Z", "z"))

E0105 == Image(<<"2", "0", "2", "4", "0", "1", "0", "5">>,
               <<"/", "a", "_">> \o SizeToken \o <<"&", "p">>, Caption("A", "a"))

\* The same day served later with another picture and caption.
E0105alt == Image(<<"2", "0", "2", "4", "0", "1", "0", "5">>,
                  <<"/", "x", "_">> \o SizeToken, Caption("X", "x"))

E0120 == Image(<<"2", "0", "2", "4", "0", "1", "2", "0">>,
               <<"/", "b", "_">> \o SizeToken, Caption("B", "b"))

\* An entry whose URL has no size token.
E0201 == Image(<<"2", "0", "2", "4", "0", "2", "0", "1">>,
               <<"/", "c", ".", "j", "p", "g">>, Caption("C", "c"))

E0315 == Image(<<"2", "0", "2", "4", "0", "3", "1", "5">>,
               <<"/", "d", "_">> \o SizeToken, Caption("D", "d"))

\* An entry whose caption has no copyright glyph.
ENoGlyph == Image(<<"2", "0", "2", "4", "0", "2", "0", "2">>,
                  <<"/", "e", "_">> \o SizeToken, <<"(", "E", ")">>)

\* An entry whose start date is not a date.
EBadDate == Image(<<"2", "0", "2", "4", "0", "2", "3", "0">>,
                  <<"/", "f", "_">> \o SizeToken, Caption("F", "f"))

\* An entry without a <copyright> child.
ENoCaption ==
    [tag |-> "image",
     children |-> [startdate |-> <<"2", "0", "2", "4", "0", "2", "0", "3">>,
                   url |-> <<"/", "g", "_">> \o SizeToken]]

\* A feed request that urlopen cannot complete.
Unreachable == <<[tag |-> "URLError", children |-> [none |-> TRUE]]>>

\* A response body that xml.etree.ElementTree.fromstring rejects.
Malformed == <<[tag |-> "ParseError", children |-> [none |-> TRUE]]>>

\* Feed documents, newest entry first as the archive API lists them.
Feeds ==
    { Unreachable,
      Malformed,
      <<Tooltips>>,
      <<E0105, E1231, Tooltips>>,
      <<E0201, E0120, E0105, Tooltips>>,
      <<E0105alt, Tooltips>>,
      <<E0120, ENoGlyph, Tooltips>>,
      <<E0315, EBadDate, Tooltips>>,
      <<E0201, ENoCaption, Tooltips>> }

----------------------------------------------------------------------------
\* class BingImage

MonthName == <<"January", "February", "March", "April", "May", "June", "July",
               "August", "September", "October", "November", "December">>

\* Path.stem: the file name without its last suffix.
PathStem(name) ==
    LET dots == {p \in 2..Len(name) : name[p] = "."}
    IN IF dots = {} THEN name
       ELSE SubSeq(name, 1, (CHOOSE p \in dots : \A q \in dots : q <= p) - 1)

\* time.strftime("%B %Y", date)
display_month(date) == <<MonthName[date.tm_mon], " ">> \o Str(date.tm_year)

\* dir_thumbs / f"{stem}.webp", relative to dir_thumbs
thumb_path(name) == PathStem(name) \o Webp

\* The day not zero-padded: f"{mday}.html".
html_path_unpadded(date) == <<Str(date.tm_year), Fmt02d(date.tm_mon), Str(date.tm_mday) \o Html>>

\* dir_www / str(year) / f"{mon:02d}" / f"{mday:02d}.html", relative to dir_www
html_path(date) == <<Str(date.tm_year), Fmt02d(date.tm_mon), Fmt02d(date.tm_mday) \o Html>>

\* dir_www / str(year) / f"{mon:02d}" / "index.html", relative to dir_www
html_month_path(date) == <<Str(date.tm_year), Fmt02d(date.tm_mon), IndexHtml>>

\* BingImage(path) for the file called name in dir_img, or the ValueError
\* that strptime raises on its stem.
BingImage(name) ==
    LET date == strptime(PathStem(name))
    IN IF IsError(date) THEN date
       ELSE [path |-> name,
             date |-> date,
             display_month |-> display_month(date),
             thumb_path |-> thumb_path(name),
             html_path |-> html_path(date),
             html_month_path |-> html_month_path(date)]

\* self.exif["0th"] holds the tag.
HasTag(files, b, tag) == tag \in DOMAIN files[b.path].exif

\* BingImage.title on the files of dir_img, where the tag is present.
title(files, b) == files[b.path].exif.ImageDescription

\* BingImage.copyright on the files of dir_img, where the tag is present.
copyright(files, b) == files[b.path].exif.Copyright

\* BingImage.Image: PIL can decode the file unless its bytes are cut short.
Decodable(files, name) == files[name].bytes # Truncated

----------------------------------------------------------------------------
\* State

VARIABLES
    images,          \* dir_img: file name -> [bytes, exif, mtime]
    thumbs,          \* dir_thumbs: file name -> [src, mtime]
    pages,           \* dir_www: path of a page -> what it was rendered from
    run,             \* number of runs started so far
    faults,          \* number of failures injected so far
    pc,              \* position of the running script, "idle" between runs
    status,          \* exit status of the last run
    raised,          \* exception that ended the last run, or None
    args_download,   \* args.download is set
    bing,            \* the feed response of this run
    k,               \* position of the download loop in bing
    entry,           \* date, url, ic_desc, ic_copy of the entry being stored
    listing,         \* sorted(dir_img.iterdir())
    j,               \* position of the site loop in listing
    i,               \* the BingImage of the loop in progress
    curr_date,
    imgs,
    prev_month_img,
    prev,            \* feed, images and pages at the end of the last completed ingestion
    written,         \* paths of the pages written by this run, in order
    rerun,           \* this run repeats the command of a run that was cut short
    shuffled         \* the listing just taken came back out of ascending order

vars == <<images, thumbs, pages, run, faults, pc, status, raised, args_download, bing,
          k, entry, listing, j, i, curr_date, imgs, prev_month_img, prev,
          written, rerun, shuffled>>

disk == <<images, thumbs, pages>>

ingest_locals == <<k, entry>>

site_locals == <<listing, j, curr_date, imgs, prev_month_img>>

\* The file system has no file yet.
NoFiles == <<>>

Exists(files, name) == name \in DOMAIN files

\* files with name written (created or replaced).
WriteFile(files, name, content) == [n \in DOMAIN files \cup {name} |->
                                       IF n = name THEN content ELSE files[n]]

Init ==
    /\ images = NoFiles
    /\ thumbs = NoFiles
    /\ pages = NoFiles
    /\ run = 0
    /\ faults = 0
    /\ pc = "idle"
    /\ status = "none"
    /\ raised = None
    /\ args_download = FALSE
    /\ bing = <<>>
    /\ k = 0
    /\ entry = None
    /\ listing = <<>>
    /\ j = 0
    /\ i = None
    /\ curr_date = None
    /\ imgs = <<>>
    /\ prev_month_img = None
    /\ prev = None
    /\ written = <<>>
    /\ rerun = FALSE
    /\ shuffled = FALSE

\* The process ends: normally, by an uncaught exception, or killed.
Exit(code, exc) ==
    /\ pc' = "idle"
    /\ status' = code
    /\ raised' = exc
    /\ k' = 0
    /\ entry' = None
    /\ listing' = <<>>
    /\ j' = 0
    /\ i' = None
    /\ curr_date' = None
    /\ imgs' = <<>>
    /\ prev_month_img' = None

\* The exception caught and the loop going on with the next entry.
AbortAndGoOn(exc) ==
    /\ pc' = "entry"
    /\ k' = k + 1
    /\ entry' = None
    /\ UNCHANGED <<status, raised, site_locals, i, prev>>

\* An uncaught exception before the ingestion has completed.
Abort(exc) == Exit("1", exc) /\ prev' = None

----------------------------------------------------------------------------
\* Download images

\* The last run was cut short: killed, or stopped by a failing download or save.
Interrupted == status = "killed" \/ (raised = OSError /\ prev = None)

\* The script is started, with or without --download, and the feed will
\* answer with document doc.  The directory given to --download is the images
\* directory of the archive, so that download-only and full runs work on the
\* same image files.
StartRun(download, doc) ==
    /\ pc = "idle"
    /\ run < MaxRuns
    /\ run' = run + 1
    /\ args_download' = download
    /\ bing' = doc
    /\ pc' = "fetch"
    /\ status' = "running"
    /\ raised' = None
    /\ written' = <<>>
    /\ rerun' = (Interrupted /\ doc = bing /\ download = args_download)
    /\ UNCHANGED <<disk, faults, ingest_locals, site_locals, i, prev, shuffled>>

\* urlopen and fromstring: either raises, before anything is written.
Fetch ==
    /\ pc = "fetch"
    /\ IF bing = Unreachable THEN Abort([error |-> "URLError"])
       ELSE IF bing = Malformed THEN Abort([error |-> "ParseError"])
       ELSE /\ pc' = "entry"
            /\ k' = 1
            /\ UNCHANGED <<status, raised, entry, site_locals, i, prev>>
    /\ UNCHANGED <<disk, run, rerun, shuffled, faults, args_download, bing, written>>

\* The fields the loop body computes from element ic, or the exception it raises.
ParseEntry(ic) ==
    LET c == ic.children
    IN IF "startdate" \notin DOMAIN c THEN AttributeError
       ELSE LET date_struct == strptime(c.startdate)
            IN IF IsError(date_struct) THEN date_struct
               ELSE IF "url" \notin DOMAIN c \/ "copyright" \notin DOMAIN c
                    THEN AttributeError
               ELSE LET parts == Split(c.copyright, "©")
                    IN IF Len(parts) < 2 THEN IndexError
                       ELSE [date |-> strftime(date_struct),
                             url |-> Replace(BingHost \o c.url, SizeToken, UHDToken),
                             ic_desc |-> Strip(parts[1], {"(", ")", " "}),
                             ic_copy |-> <<"©">> \o Strip(parts[2], {"(", ")", " "})]

\* The existence test left out: every entry of the feed is downloaded.
NeedsDownloadAlways(files, name) == TRUE

\* if not i.path.exists()
NeedsDownload(files, name) == ~Exists(files, name)

\* One pass of the download loop up to the existence test.
Entry ==
    /\ pc = "entry"
    /\ IF k > Len(bing)
       THEN /\ pc' = "ingested"
            /\ UNCHANGED <<status, raised, k, entry, site_locals, i, prev>>
       ELSE IF bing[k].tag # "image"
       THEN /\ k' = k + 1
            /\ UNCHANGED <<pc, status, raised, entry, site_locals, i, prev>>
       ELSE LET e == ParseEntry(bing[k])
            IN IF IsError(e) THEN Abort(e)
               ELSE LET b == BingImage(e.date \o Jpg)
                    IN IF IsError(b) THEN Abort(b)
                       ELSE /\ i' = b
                            /\ IF NeedsDownload(images, b.path)
                               THEN /\ pc' = "download"
                                    /\ entry' = e
                                    /\ k' = k
                               ELSE /\ pc' = "entry"
                                    /\ entry' = None
                                    /\ k' = k + 1
                            /\ UNCHANGED <<status, raised, site_locals, prev>>
    /\ UNCHANGED <<disk, run, rerun, shuffled, faults, args_download, bing, written>>

\* urlretrieve(url, filename=i.path) stores the remote bytes.
Download ==
    /\ pc = "download"
    /\ images' = WriteFile(images, i.path,
                           [bytes |-> entry.url, exif |-> NoExif, mtime |-> run])
    /\ pc' = "stamp"
    /\ UNCHANGED <<thumbs, pages, run, rerun, shuffled, faults, status, raised, args_download, bing,
                   ingest_locals, site_locals, i, prev, written>>

\* urlretrieve raises: before the file is opened, or part-way through the body.
DownloadFail ==
    /\ pc = "download"
    /\ faults < MaxFaults
    /\ faults' = faults + 1
    /\ \/ UNCHANGED images
       \/ images' = WriteFile(images, i.path,
                              [bytes |-> Truncated, exif |-> NoExif, mtime |-> run])
    /\ Abort(OSError)
    /\ UNCHANGED <<thumbs, pages, run, rerun, shuffled, args_download, bing, written>>

\* i.Image.save(i.path, quality="keep", exif=...) rewrites the file with its tags.
Stamp ==
    /\ pc = "stamp"
    /\ images' = WriteFile(images, i.path,
                           [bytes |-> images[i.path].bytes,
                            exif |-> [ifd |-> "0th",
                                      ImageDescription |-> entry.ic_desc,
                                      Copyright |-> entry.ic_copy],
                            mtime |-> run])
    /\ pc' = "entry"
    /\ k' = k + 1
    /\ entry' = None
    /\ UNCHANGED <<thumbs, pages, run, rerun, shuffled, faults, status, raised, args_download, bing,
                   site_locals, i, prev, written>>

\* Decoding or saving raises: the downloaded file stays as it is.
StampFail ==
    /\ pc = "stamp"
    /\ faults < MaxFaults
    /\ faults' = faults + 1
    /\ Abort(OSError)
    /\ UNCHANGED <<disk, run, rerun, shuffled, args_download, bing, written>>

\* The early exit left out.
DownloadOnlyNever(download) == FALSE

\* if args.download
DownloadOnly(download) == download

\* dir_img.iterdir(): the entries of the directory, in any order.
RECURSIVE Orders(_)
Orders(names) ==
    IF names = {} THEN {<<>>}
    ELSE UNION {{<<n>> \o rest : rest \in Orders(names \ {n})} : n \in names}

iterdir(files) == Orders(DOMAIN files)

\* name put into the ascending sequence seq at its place.
RECURSIVE Insert(_, _)
Insert(name, seq) ==
    IF seq = <<>> THEN <<name>>
    ELSE IF LexLess(name, Head(seq)) THEN <<name>> \o seq
    ELSE <<Head(seq)>> \o Insert(name, Tail(seq))

\* The listing used as it comes.
Unsorted(seq) == seq

\* sorted(...): the names in ascending order.
RECURSIVE sorted(_)
sorted(seq) == IF seq = <<>> THEN <<>> ELSE Insert(Head(seq), sorted(Tail(seq)))

\* sorted(dir_img.iterdir()) when iterdir yields order, and whether the
\* sorting had anything to put right.
Listed(order) ==
    LET names == sorted(order)
    IN [names |-> names, shuffled |-> order # names]

\* The loop is over: exit if only downloading, else start the site build.
Ingested ==
    /\ pc = "ingested"
    /\ prev' = [bing |-> bing, images |-> images, pages |-> pages]
    /\ IF DownloadOnly(args_download)
       THEN Exit("0", None) /\ shuffled' = FALSE
       ELSE /\ pc' = "scan"
            /\ \E listed \in {Listed(order) : order \in iterdir(images)} :
                  /\ listing' = listed.names
                  /\ shuffled' = listed.shuffled
            /\ j' = 1
            /\ curr_date' = None
            /\ imgs' = <<>>
            /\ prev_month_img' = None
            /\ i' = None
            /\ UNCHANGED <<status, raised, ingest_locals>>
    /\ UNCHANGED <<disk, run, rerun, faults, args_download, bing, written>>

----------------------------------------------------------------------------
\* Generate static site

\* The existence test left out: every thumbnail is generated again.
ThumbExistsNever(th, b) == FALSE

\* if self.thumb_path.exists()
ThumbExists(th, b) == Exists(th, b.thumb_path)

\* imgs[-1]
Last(seq) == seq[Len(seq)]

\* What day.html shows of img: its title and its copyright text.  Reading
\* a tag the file does not carry raises KeyError.
DayTemplate(files, b) ==
    IF ~HasTag(files, b, "ImageDescription") \/ ~HasTag(files, b, "Copyright")
    THEN KeyError
    ELSE [title |-> title(files, b), copyright |-> copyright(files, b)]

\* The context day.html is rendered with.
DayContext(b) == [template |-> "day.html", img |-> b]

\* The month comparison left out: only the years are compared.
SameMonthYearOnly(d, c) == d.tm_year = c.tm_year

\* i.date.tm_year == curr_date.tm_year and i.date.tm_mon == curr_date.tm_mon
SameMonth(d, c) == d.tm_year = c.tm_year /\ d.tm_mon = c.tm_mon

\* The forward link taken from the month being closed instead of the new one.
MonthContextOwnNext(bucket, next, prevm) ==
    [template |-> "month.html",
     imgs |-> bucket,
     display_date |-> Last(bucket).display_month,
     next_img |-> Last(bucket),
     prev_img |-> prevm]

\* The context month.html is rendered with at a month boundary.
MonthContext(bucket, next, prevm) ==
    [template |-> "month.html",
     imgs |-> bucket,
     display_date |-> Last(bucket).display_month,
     next_img |-> next,
     prev_img |-> prevm]

\* The context month.html is rendered with after the loop.
FinalMonthContext(bucket, prevm) ==
    [template |-> "month.html",
     imgs |-> bucket,
     display_date |-> Last(bucket).display_month,
     prev_img |-> prevm]

\* The first image of the last month instead of the last one.
HomeContextFirst(bucket) == [template |-> "home.html", img |-> Head(bucket)]

\* The context home.html is rendered with.
HomeContext(bucket) == [template |-> "home.html", img |-> Last(bucket)]

\* The page model carrying the time of the build.
WritePageDated(files, path, context, shown, now) ==
    WriteFile(files, path, [context |-> [model |-> context, built |-> now],
                            shown |-> shown, mtime |-> now])

\* A page written only where none exists yet.
WritePageIfAbsent(files, path, context, shown, now) ==
    IF Exists(files, path) THEN files
    ELSE WriteFile(files, path, [context |-> context, shown |-> shown, mtime |-> now])

\* Path.write_text(out): the page at path now holds the rendering of context.
WritePage(files, path, context, shown, now) ==
    WriteFile(files, path, [context |-> context, shown |-> shown, mtime |-> now])

\* Top of the site loop: next file of the listing, and its thumbnail.
Scan ==
    /\ pc = "scan"
    /\ IF j > Len(listing)
       THEN /\ pc' = "final_month"
            /\ UNCHANGED <<thumbs, status, raised, ingest_locals, site_locals, i>>
       ELSE LET b == BingImage(listing[j])
            IN IF IsError(b) THEN Exit("1", b) /\ UNCHANGED thumbs
               ELSE IF ThumbExists(thumbs, b)
               THEN /\ pc' = "day"
                    /\ i' = b
                    /\ UNCHANGED <<thumbs, status, raised, ingest_locals, site_locals>>
               ELSE IF ~Decodable(images, b.path) THEN Exit("1", OSError) /\ UNCHANGED thumbs
               ELSE /\ thumbs' = WriteFile(thumbs, b.thumb_path,
                                           [src |-> images[b.path].bytes, mtime |-> run])
                    /\ pc' = "day"
                    /\ i' = b
                    /\ UNCHANGED <<status, raised, ingest_locals, site_locals>>
    /\ shuffled' = FALSE
    /\ UNCHANGED <<images, pages, run, rerun, faults, args_download, bing, prev, written>>

\* Set the current month and write the day page.
DayPage ==
    /\ pc = "day"
    /\ LET shown == DayTemplate(images, i)
       IN IF IsError(shown) THEN Exit("1", shown) /\ UNCHANGED <<pages, written>>
          ELSE /\ curr_date' = IF curr_date = None THEN i.date ELSE curr_date
               /\ pages' = WritePage(pages, i.html_path, DayContext(i), shown, run)
               /\ written' = Append(written, i.html_path)
               /\ pc' = "bucket"
               /\ UNCHANGED <<status, raised, ingest_locals, listing, j, imgs,
                              prev_month_img, i>>
    /\ UNCHANGED <<images, thumbs, run, rerun, shuffled, faults, args_download, bing, prev>>

\* Append to the month in progress, or write its page and start the next.
Bucket ==
    /\ pc = "bucket"
    /\ IF SameMonth(i.date, curr_date)
       THEN /\ imgs' = Append(imgs, i)
            /\ UNCHANGED <<pages, written, curr_date, prev_month_img>>
       ELSE /\ pages' = WritePage(pages, Last(imgs).html_month_path,
                                  MonthContext(imgs, i, prev_month_img), None, run)
            /\ written' = Append(written, Last(imgs).html_month_path)
            /\ curr_date' = i.date
            /\ prev_month_img' = Last(imgs)
            /\ imgs' = <<i>>
    /\ pc' = "scan"
    /\ j' = j + 1
    /\ UNCHANGED <<images, thumbs, run, rerun, shuffled, faults, status, raised, args_download, bing,
                   ingest_locals, listing, i, prev>>

\* Build the final month page.
FinalMonth ==
    /\ pc = "final_month"
    /\ IF imgs = <<>>
       THEN Exit("1", IndexError) /\ UNCHANGED <<pages, written>>
       ELSE /\ pages' = WritePage(pages, Last(imgs).html_month_path,
                                  FinalMonthContext(imgs, prev_month_img), None, run)
            /\ written' = Append(written, Last(imgs).html_month_path)
            /\ pc' = "home"
            /\ UNCHANGED <<status, raised, ingest_locals, site_locals, i>>
    /\ UNCHANGED <<images, thumbs, run, rerun, shuffled, faults, args_download, bing, prev>>

\* Build the home page, and the script ends.
Home ==
    /\ pc = "home"
    /\ pages' = WritePage(pages, <<IndexHtml>>, HomeContext(imgs), None, run)
    /\ written' = Append(written, <<IndexHtml>>)
    /\ Exit("0", None)
    /\ UNCHANGED <<images, thumbs, run, rerun, shuffled, faults, args_download, bing, prev>>

\* The process is killed where it stands.
Kill ==
    /\ pc # "idle"
    /\ faults < MaxFaults
    /\ faults' = faults + 1
    /\ Exit("killed", None)
    /\ prev' = IF pc \in {"fetch", "entry", "download", "stamp", "ingested"}
               THEN None ELSE prev
    /\ shuffled' = FALSE
    /\ UNCHANGED <<disk, run, rerun, args_download, bing, written>>

Next ==
    \/ \E download \in BOOLEAN, doc \in Feeds : StartRun(download, doc)
    \/ Fetch
    \/ Entry
    \/ Download
    \/ DownloadFail
    \/ Stamp
    \/ StampFail
    \/ Ingested
    \/ Scan
    \/ DayPage
    \/ Bucket
    \/ FinalMonth
    \/ Home
    \/ Kill

Spec == Init /\ [][Next]_vars

----------------------------------------------------------------------------
\* The parsing of one feed entry on its own, over many captions and URLs

\* Longest text tried on either side of the copyright glyph.
MaxTextLen == 3
\* Largest number of pieces a tried URL is put together from.
MaxUrlParts == 3

CaptionChars == {"S", " ", "(", ")"}

Texts == UNION {[1..m -> CaptionChars] : m \in 0..MaxTextLen}

SunsetCaption == <<"(", "S", "u", "n", "s", "e", "t", " ", "o", "v", "e", "r", " ", "t", "h", "e", " ", "b", "a", "y", " ", "©", " ", "J", "a", "n", "e", " ", "D", "o", "e", ")">>

\* Copyright texts with one glyph.
Captions == {l \o <<"©">> \o r : l \in Texts, r \in Texts} \cup {SunsetCaption}

\* The size token cut one character short.
CutToken == SubSeq(SizeToken, 1, Len(SizeToken) - 1)

UrlParts == {SizeToken, CutToken, <<"/", "a", "_">>, <<"&", "p">>}

PartSeqs == UNION {[1..m -> UrlParts] : m \in 0..MaxUrlParts}

RECURSIVE Flatten(_)
Flatten(parts) == IF parts = <<>> THEN <<>> ELSE Head(parts) \o Flatten(Tail(parts))

ParseInputs ==
    {Image(E0105.children.startdate, E0105.children.url, c) : c \in Captions}
    \cup {Image(E0105.children.startdate, Flatten(ps), E0105.children.copyright) :
             ps \in PartSeqs}

InitParse ==
    /\ bing \in {<<e>> : e \in ParseInputs}
    /\ pc = "parse"
    /\ images = NoFiles
    /\ thumbs = NoFiles
    /\ pages = NoFiles
    /\ run = 0
    /\ faults = 0
    /\ status = "none"
    /\ raised = None
    /\ args_download = FALSE
    /\ k = 1
    /\ entry = None
    /\ listing = <<>>
    /\ j = 0
    /\ i = None
    /\ curr_date = None
    /\ imgs = <<>>
    /\ prev_month_img = None
    /\ prev = None
    /\ written = <<>>
    /\ rerun = FALSE
    /\ shuffled = FALSE

\* The loop body from the date to the caption, on the element bing[k].
ParseStep ==
    /\ pc = "parse"
    /\ entry' = ParseEntry(bing[k])
    /\ pc' = "parsed"
    /\ UNCHANGED <<disk, run, rerun, shuffled, faults, status, raised, args_download, bing, k, site_locals,
                   i, prev, written>>

NextParse == ParseStep

SpecParse == InitParse /\ [][NextParse]_vars

----------------------------------------------------------------------------
\* Properties.  The archive layout they refer to is the documented one:
\* images/{YYYYMMDD}.jpg, thumbs/{YYYYMMDD}.webp, {YYYY}/{MM}/{DD}.html,
\* {YYYY}/{MM}/index.html and index.html.

YearOf(name) == Num(SubSeq(name, 1, 4))

MonthOf(name) == Num(SubSeq(name, 5, 6))

DayOf(name) == Num(SubSeq(name, 7, 8))

\* Months and dates as numbers that grow with time.
MonthIdx(name) == 12 * YearOf(name) + MonthOf(name)

DateIdx(name) == 10000 * YearOf(name) + 100 * MonthOf(name) + DayOf(name)

DayPagePath(name) == <<SubSeq(name, 1, 4), SubSeq(name, 5, 6), SubSeq(name, 7, 8) \o Html>>

MonthPagePath(name) == <<SubSeq(name, 1, 4), SubSeq(name, 5, 6), IndexHtml>>

ThumbName(name) == SubSeq(name, 1, 8) \o Webp

IsMonthPath(path) == Len(path) = 3 /\ path[3] = IndexHtml

IsDayPath(path) == Len(path) = 3 /\ path[3] # IndexHtml

RECURSIVE ByDate(_)
\* The names of a set of image files in ascending date order.
ByDate(names) ==
    IF names = {} THEN <<>>
    ELSE LET first == CHOOSE n \in names : \A m \in names : DateIdx(n) <= DateIdx(m)
         IN <<first>> \o ByDate(names \ {first})

Archived == DOMAIN images

OfMonth(name) == {n \in Archived : MonthIdx(n) = MonthIdx(name)}

Earlier(name) == {n \in Archived : MonthIdx(n) < MonthIdx(name)}

Later(name) == {n \in Archived : MonthIdx(n) > MonthIdx(name)}

PathsOf(bucket) == [x \in 1..Len(bucket) |-> bucket[x].path]

Stamped(name) == {"ImageDescription", "Copyright"} \subseteq DOMAIN images[name].exif

\* The last run was a full run (no --download) that ran to its end.
RebuildCompleted == pc = "idle" /\ status = "0" /\ ~args_download

\* The download loop stands at an entry that parses and whose file exists.
AtExistingEntry ==
    /\ pc = "entry"
    /\ k <= Len(bing)
    /\ bing[k].tag = "image"
    /\ ~IsError(ParseEntry(bing[k]))
    /\ Exists(images, ParseEntry(bing[k]).date \o Jpg)

\* C1: an entry whose destination file exists is passed over without a
\* download, a re-stamp or an error, and an ingestion that follows a completed
\* ingestion of the same feed ends with the image files exactly as they were.
C1_IngestionIdempotent ==
    /\ [][AtExistingEntry =>
            /\ images' = images
            /\ raised' = None
            /\ pc' \in {"entry", "idle"}
            /\ pc' = "entry" => k' = k + 1]_vars
    /\ [](pc = "ingested" /\ prev # None /\ prev.bing = bing => images = prev.images)

\* A second ingestion of the same feed has passed over every entry.
C1_Witness ==
    /\ pc = "ingested"
    /\ prev # None
    /\ prev.bing = bing
    /\ \E x \in 1..Len(bing) : bing[x].tag = "image"
    /\ Archived # {}
    /\ \A n \in Archived : images[n].mtime < run

\* C2: between runs, however the last run ended, every file of the images
\* directory carries its title and copyright tags.
C2_FileExistsImpliesValid == pc = "idle" => \A n \in Archived : Stamped(n)

\* What a completed rebuild must have written for the month of image name:
\* its page, in this run, listing the images of the month in date order.
MonthPageRight(name) ==
    /\ MonthPagePath(name) \in DOMAIN pages
    /\ pages[MonthPagePath(name)].mtime = run
    /\ pages[MonthPagePath(name)].context.template = "month.html"
    /\ PathsOf(pages[MonthPagePath(name)].context.imgs) = ByDate(OfMonth(name))

MonthWrites == SelectSeq(written, IsMonthPath)

\* C3: a completed rebuild has written one month page for every month that
\* has an image, no other month page and none twice, and each lists exactly
\* the images of its month in ascending date order.
C3_MonthGrouping ==
    RebuildCompleted =>
        /\ \A n \in Archived : MonthPageRight(n)
        /\ {MonthWrites[x] : x \in 1..Len(MonthWrites)} = {MonthPagePath(n) : n \in Archived}
        /\ Len(MonthWrites) = Cardinality({MonthPagePath(n) : n \in Archived})

\* A completed rebuild of an archive of several months, one with two images.
C3_Witness ==
    /\ RebuildCompleted
    /\ Cardinality({MonthIdx(n) : n \in Archived}) >= 2
    /\ \E n \in Archived : Cardinality(OfMonth(n)) >= 2

\* The forward and back links a month page must carry.
MonthLinksRight(name) ==
    LET ctx == pages[MonthPagePath(name)].context
    IN /\ IF Later(name) = {}
          THEN "next_img" \notin DOMAIN ctx
          ELSE /\ "next_img" \in DOMAIN ctx
               /\ ctx.next_img.path = Head(ByDate(Later(name)))
       /\ IF Earlier(name) = {}
          THEN ctx.prev_img = None
          ELSE /\ ctx.prev_img # None
               /\ ctx.prev_img.html_month_path =
                      MonthPagePath(Last(ByDate(Earlier(name))))

\* C4: after a completed rebuild every month page links forward to the
\* earliest image of the next month that has images (no forward link on the
\* last month) and back to the page of the nearest earlier month that has
\* images (no back link on the first month).
C4_MonthLinks ==
    RebuildCompleted => \A n \in Archived : MonthLinksRight(n)

\* A completed rebuild of an archive of three months.
C4_Witness ==
    /\ RebuildCompleted
    /\ Cardinality({MonthIdx(n) : n \in Archived}) >= 3

\* C5: a full run whose ingestion completed over an empty images directory
\* ends without an error and has written no page.
C5_EmptyArchive ==
    (pc = "idle" /\ prev # None /\ ~args_download /\ status # "killed" /\ Archived = {})
        => (raised = None /\ status = "0" /\ written = <<>>)

\* C6: after a completed rebuild every archived date has its day page,
\* written by this run from that date's own image with its title and
\* copyright text; and no day page ever holds another date's image.
C6_DayPages ==
    /\ RebuildCompleted =>
          \A n \in Archived :
              /\ DayPagePath(n) \in DOMAIN pages
              /\ pages[DayPagePath(n)].mtime = run
              /\ pages[DayPagePath(n)].context.template = "day.html"
              /\ pages[DayPagePath(n)].context.img.path = n
              /\ pages[DayPagePath(n)].shown.title = images[n].exif.ImageDescription
              /\ pages[DayPagePath(n)].shown.copyright = images[n].exif.Copyright
    /\ \A p \in DOMAIN pages :
          IsDayPath(p) => /\ pages[p].context.template = "day.html"
                          /\ DayPagePath(pages[p].context.img.path) = p

\* A completed rebuild of an archive with two days of one month.
C6_Witness ==
    /\ RebuildCompleted
    /\ \E n \in Archived : Cardinality(OfMonth(n)) >= 2

\* C7: no step ever changes or removes a thumbnail that exists, and after a
\* completed rebuild every image has its thumbnail.
C7_ThumbnailSkip ==
    /\ [][\A t \in DOMAIN thumbs : t \in DOMAIN thumbs' /\ thumbs'[t] = thumbs[t]]_vars
    /\ [](RebuildCompleted => \A n \in Archived : ThumbName(n) \in DOMAIN thumbs)

\* A completed rebuild that found some thumbnails and created others.
C7_Witness ==
    /\ RebuildCompleted
    /\ \E t \in DOMAIN thumbs : thumbs[t].mtime < run
    /\ \E t \in DOMAIN thumbs : thumbs[t].mtime = run

\* C8: after a completed rebuild of a non-empty archive the home page was
\* written by this run from the image with the greatest date.
C8_HomePage ==
    (RebuildCompleted /\ Archived # {}) =>
        /\ <<IndexHtml>> \in DOMAIN pages
        /\ pages[<<IndexHtml>>].mtime = run
        /\ pages[<<IndexHtml>>].context.template = "home.html"
        /\ pages[<<IndexHtml>>].context.img.path = Last(ByDate(Archived))

\* A completed rebuild whose last month has several images.
C8_Witness ==
    /\ RebuildCompleted
    /\ Cardinality(OfMonth(Last(ByDate(Archived)))) >= 2
    /\ Cardinality({MonthIdx(n) : n \in Archived}) >= 2

SitePositions == {"scan", "day", "bucket", "final_month", "home"}

\* C9: a run with --download never enters the site build, writes no
\* thumbnail and no page, and ends with status 0 straight after the download
\* loop; a run without it goes from the download loop into the site build.
C9_DownloadOnly ==
    /\ [](args_download =>
            /\ pc \notin SitePositions
            /\ written = <<>>
            /\ \A t \in DOMAIN thumbs : thumbs[t].mtime # run
            /\ \A p \in DOMAIN pages : pages[p].mtime # run)
    /\ [][pc = "ingested" /\ status' # "killed" =>
            IF args_download THEN pc' = "idle" /\ status' = "0" /\ raised' = None
            ELSE pc' = "scan" /\ listing' = ByDate(Archived)]_vars

\* A --download run has ended normally over an archive that already had pages.
C9_Witness ==
    /\ args_download
    /\ pc = "idle"
    /\ status = "0"
    /\ pages # NoFiles
    /\ \E n \in Archived : images[n].mtime = run

FeedErrors == {[error |-> "URLError"], [error |-> "ParseError"], ValueError,
               IndexError, AttributeError}

\* C10: a run that ends on a feed that cannot be fetched or parsed, whole or
\* in one entry, has written no file.
C10_FeedFailureNoWrite ==
    (pc = "idle" /\ status = "1" /\ prev = None /\ raised \in FeedErrors) =>
        /\ \A n \in Archived : images[n].mtime # run
        /\ \A t \in DOMAIN thumbs : thumbs[t].mtime # run
        /\ written = <<>>

TrimChars == {"(", ")", " "}

\* s without the parentheses and spaces at its two ends: the part of s
\* between a first and a last character that are neither.
Trim(s) ==
    LET cuts == {c \in (1..(Len(s) + 1)) \X (0..Len(s)) :
                   /\ c[1] <= c[2] + 1
                   /\ \A x \in 1..(c[1] - 1) : s[x] \in TrimChars
                   /\ \A x \in (c[2] + 1)..Len(s) : s[x] \in TrimChars
                   /\ c[1] <= c[2] => (s[c[1]] \notin TrimChars /\ s[c[2]] \notin TrimChars)}
        cut == CHOOSE c \in cuts : TRUE
    IN SubSeq(s, cut[1], cut[2])

GlyphAt(text) == CHOOSE x \in 1..Len(text) : text[x] = "©"

\* The general rule of C11: the title is the text before the glyph and the
\* attribution the glyph plus the text after it, each without the parentheses
\* and spaces at its ends.
SplitByRule ==
    LET text == bing[k].children.copyright
    IN /\ ~IsError(entry)
       /\ entry.ic_desc = Trim(SubSeq(text, 1, GlyphAt(text) - 1))
       /\ entry.ic_copy = <<"©">> \o Trim(SubSeq(text, GlyphAt(text) + 1, Len(text)))

\* C11 as stated: the rule, and "(Sunset over the bay © Jane Doe)" gives the
\* title "Sunset over the bay" and the attribution "© Jane Doe".
C11_CaptionSplitAsStated ==
    pc = "parsed" =>
        /\ SplitByRule
        /\ bing[k].children.copyright = SunsetCaption =>
              /\ entry.ic_desc = <<"S", "u", "n", "s", "e", "t", " ", "o", "v", "e", "r", " ", "t", "h", "e", " ", "b", "a", "y">>
              /\ entry.ic_copy = <<"©", " ", "J", "a", "n", "e", " ", "D", "o", "e">>

\* C11 as amended: the rule, and "(Sunset over the bay © Jane Doe)" gives the
\* title "Sunset over the bay" and the attribution "©Jane Doe", the space
\* after the glyph being trimmed with the rest.
C11_CaptionSplit ==
    pc = "parsed" =>
        /\ SplitByRule
        /\ bing[k].children.copyright = SunsetCaption =>
              /\ entry.ic_desc = <<"S", "u", "n", "s", "e", "t", " ", "o", "v", "e", "r", " ", "t", "h", "e", " ", "b", "a", "y">>
              /\ entry.ic_copy = <<"©", "J", "a", "n", "e", " ", "D", "o", "e">>

\* The documented example has been split.
C11_Witness ==
    /\ pc = "parsed"
    /\ bing[k].children.copyright = SunsetCaption
    /\ Len(entry.ic_desc) = 19

\* The pieces of a URL with every size token exchanged for the UHD one.
Upgraded(parts) ==
    [x \in 1..Len(parts) |-> IF parts[x] = SizeToken THEN UHDToken ELSE parts[x]]

\* C17: the URL that is downloaded is the feed's URL on the Bing host with
\* every size token 1920x1080.jpg replaced by UHD.jpg and all the rest, and
\* so a URL without the token, as it was.
C17_UrlUpgrade ==
    pc = "parsed" =>
        /\ ~IsError(entry)
        /\ \A ps \in PartSeqs :
              bing[k].children.url = Flatten(ps) =>
                  entry.url = BingHost \o Flatten(Upgraded(ps))

\* A URL with the token and a URL without it have been processed.
C17_Witness ==
    /\ pc = "parsed"
    /\ \E ps \in PartSeqs :
          /\ bing[k].children.url = Flatten(ps)
          /\ Len(ps) = 3
          /\ ps[1] = CutToken
          /\ ps[2] = SizeToken
          /\ ps[3] = SizeToken

ImagesOf(doc) == {x \in 1..Len(doc) : doc[x].tag = "image"}

\* A feed with images, all of whose entries parse.
GoodFeed(doc) ==
    /\ ImagesOf(doc) # {}
    /\ \A x \in ImagesOf(doc) : ~IsError(ParseEntry(doc[x]))

FeedNames(doc) == {ParseEntry(doc[x]).date \o Jpg : x \in ImagesOf(doc)}

\* C12: when the command of a run that was cut short is run again on the
\* same good feed and is not cut short itself, it ends with status 0, every
\* date of the feed is stored with its tags, and after a full run every
\* image has its thumbnail, its day page and its month page.
C12_Resumable ==
    (pc = "idle" /\ rerun /\ ~Interrupted /\ GoodFeed(bing)) =>
        /\ status = "0"
        /\ \A n \in FeedNames(bing) : n \in Archived /\ Stamped(n)
        /\ ~args_download =>
              \A n \in Archived : /\ ThumbName(n) \in DOMAIN thumbs
                                  /\ DayPagePath(n) \in DOMAIN pages
                                  /\ MonthPagePath(n) \in DOMAIN pages

\* C13 as stated: a rebuild creates a page only where there is none, and
\* no step ever overwrites a page that exists.
C13_NoPageOverwritten ==
    [][\A p \in DOMAIN pages : p \in DOMAIN pages' /\ pages'[p] = pages[p]]_vars

\* A step of the rebuild keeps every thumbnail that exists, and a new one
\* is the thumbnail of the image being scanned.
RebuildKeepsThumbs ==
    pc \in SitePositions =>
        /\ \A t \in DOMAIN thumbs : t \in DOMAIN thumbs' /\ thumbs'[t] = thumbs[t]
        /\ \A t \in DOMAIN thumbs' \ DOMAIN thumbs :
               pc = "scan" /\ t = BingImage(listing[j]).thumb_path

\* C13: during a rebuild an existing thumbnail is left untouched and only
\* a missing one is created, while the day pages, the month pages and the
\* home page are written anew by every rebuild, existing or not: after a
\* completed rebuild every page of the archive is the one this run wrote.
C13_OnlyThumbnailsKept ==
    /\ [][RebuildKeepsThumbs]_vars
    /\ [](RebuildCompleted =>
             /\ <<IndexHtml>> \in DOMAIN pages /\ pages[<<IndexHtml>>].mtime = run
             /\ \A n \in Archived :
                    /\ DayPagePath(n) \in DOMAIN pages
                    /\ pages[DayPagePath(n)].mtime = run
                    /\ MonthPagePath(n) \in DOMAIN pages
                    /\ pages[MonthPagePath(n)].mtime = run)

\* A later rebuild is done: a thumbnail of an earlier run is still there,
\* and the pages the earlier rebuild wrote have been written again.
C13_Witness ==
    /\ RebuildCompleted
    /\ prev # None
    /\ <<IndexHtml>> \in DOMAIN prev.pages
    /\ \E n \in Archived : /\ DayPagePath(n) \in DOMAIN prev.pages
                            /\ pages[DayPagePath(n)].mtime > prev.pages[DayPagePath(n)].mtime
                            /\ thumbs[ThumbName(n)].mtime < run

\* Entry x of the feed has been processed: it parses and its file is there.
Processed(x) ==
    LET e == ParseEntry(bing[x])
    IN ~IsError(e) /\ (e.date \o Jpg) \in Archived

\* Entry x of the feed got no file from this run, in the state a step leads to.
NotDownloaded(x) ==
    LET e == ParseEntry(bing[x])
    IN IsError(e) \/ (e.date \o Jpg) \notin DOMAIN images'
                 \/ images'[e.date \o Jpg].mtime < run

\* A download or a save that does not succeed ends the run on the spot,
\* with no file for any later entry of the feed.
FailureStops ==
    (pc \in {"download", "stamp"} /\ faults' # faults) =>
        /\ pc' = "idle"
        /\ status' \in {"1", "killed"}
        /\ thumbs' = thumbs /\ pages' = pages
        /\ \A x \in ImagesOf(bing) : x > k => NotDownloaded(x)

\* C14: when the download or the stamping of an entry fails the run ends
\* there: no later entry of the feed is downloaded and the run generates no
\* thumbnail and no page; the site build is only ever under way with every
\* entry of the feed processed.
C14_StopAtFirstFailure ==
    /\ [][FailureStops]_vars
    /\ []((pc = "idle" /\ raised = OSError /\ prev = None) =>
             /\ written = <<>>
             /\ \A t \in DOMAIN thumbs : thumbs[t].mtime < run
             /\ \A p \in DOMAIN pages : pages[p].mtime < run)
    /\ [](pc \in SitePositions => \A x \in ImagesOf(bing) : Processed(x))

\* A run stopped by a failing download or save after it had ingested one
\* entry, with a later entry of the feed still missing from the archive.
C14_Witness ==
    /\ pc = "idle" /\ status = "1" /\ raised = OSError /\ prev = None
    /\ \E n \in Archived : images[n].mtime = run /\ Stamped(n)
    /\ \E x \in ImagesOf(bing) : ~IsError(ParseEntry(bing[x])) /\ ~Processed(x)

\* The names of seq are in strictly ascending order of date.
Ascending(seq) ==
    \A a, b \in 1..Len(seq) : a < b => DateIdx(seq[a]) < DateIdx(seq[b])

DayWrites == SelectSeq(written, IsDayPath)

\* C15: whatever order the directory listing comes back in, the site build
\* works on all the image files in ascending order of date, and takes them
\* one by one in that order.
C15_ListingOrder ==
    pc \in SitePositions =>
        /\ Len(listing) = Cardinality(Archived)
        /\ {listing[x] : x \in 1..Len(listing)} = Archived
        /\ Ascending(listing)
        /\ pc \in {"day", "bucket"} => i.path = listing[j]
        /\ DayWrites = [x \in 1..Len(DayWrites) |-> DayPagePath(listing[x])]
        /\ Len(DayWrites) = IF pc \in {"scan", "day"} THEN j - 1
                             ELSE IF pc = "bucket" THEN j ELSE Len(listing)

\* The build starts on three or more files that the directory listing
\* returned out of order.
C15_Witness == pc = "scan" /\ shuffled /\ Len(listing) >= 3

\* How many files of the listing the scan has put into a bucket so far.
Bucketed == IF pc \in {"scan", "day", "bucket"} THEN j - 1 ELSE Len(listing)

\* The open bucket is the run of files of one month that ends at the last
\* file taken: same year and month as the marker, in ascending order, and
\* the file before the run is of another month.
OpenBucketRight ==
    LET n == Len(imgs)
        done == Bucketed
    IN /\ done >= 1 => n >= 1 /\ curr_date # None
       /\ n <= done
       /\ PathsOf(imgs) = SubSeq(listing, done - n + 1, done)
       /\ Ascending(PathsOf(imgs))
       /\ \A a \in 1..n : /\ imgs[a].date.tm_year = curr_date.tm_year
                           /\ imgs[a].date.tm_mon = curr_date.tm_mon
       /\ (n >= 1 /\ done > n) =>
              MonthIdx(listing[done - n]) # MonthIdx(listing[done])

\* The step writes a month page.
FlushStep == Len(written') > Len(written) /\ IsMonthPath(Last(written'))

\* The step is at the point where a bucket is to be flushed: the file in
\* hand is of another month than the marker, or the scan is over.
FlushPoint ==
    \/ /\ pc = "bucket"
       /\ MonthIdx(i.path) # 12 * curr_date.tm_year + curr_date.tm_mon
    \/ pc = "final_month" /\ imgs # <<>>

\* A month page is written at a flush point and nowhere else; it is the
\* page of the open bucket, and at a month change the file in hand opens
\* the next bucket.
FlushExactly ==
    /\ FlushStep => FlushPoint
    /\ (FlushPoint /\ status' # "killed") =>
          /\ FlushStep
          /\ pages'[Last(written')].context.imgs = imgs
          /\ Last(written') = MonthPagePath(Last(imgs).path)
          /\ pc = "bucket" => imgs' = <<i>>

\* C16: throughout the scan of a rebuild there is one open bucket; once
\* a file has been taken it is not empty, its images are all of the year and
\* month of the current-month marker and in ascending order of date, and it
\* is flushed to a month page exactly when the file in hand is of another
\* month or the scan is over.
C16_OpenBucket ==
    /\ [](pc \in SitePositions => OpenBucketRight)
    /\ [][FlushExactly]_vars

\* A bucket has been flushed and the one opened after it holds two images.
C16_Witness ==
    /\ pc = "scan"
    /\ prev_month_img # None
    /\ Len(imgs) >= 2
    /\ \E x \in 1..Len(written) : IsMonthPath(written[x])

\* A step keeps every image file, and keeps as it is every image file that
\* was there before the run began; a step of the site build changes nothing
\* in the images directory.
ImagesKept ==
    /\ pc \in SitePositions => images' = images
    /\ \A n \in DOMAIN images :
          /\ n \in DOMAIN images'
          /\ images[n].mtime < run => images'[n] = images[n]

\* C18: the site build never creates, changes or deletes an image file, and
\* ingestion never changes or deletes an image file that was there before the
\* run, so that the set of archived dates only grows.
C18_ImagesReadOnly == [][ImagesKept]_vars

\* A full run has ended that ingested a new image next to the image files
\* of an earlier run, which its feed listed too.
C18_Witness ==
    /\ RebuildCompleted
    /\ \E n \in Archived : images[n].mtime = run
    /\ \E n \in Archived \cap FeedNames(bing) : images[n].mtime < run

\* The page models of files: what each page was rendered from and shows,
\* whenever it was written.
Models(files) ==
    [p \in DOMAIN files |-> [context |-> files[p].context, shown |-> files[p].shown]]

\* This run found the pages of a rebuild completed by the run before it, and
\* has not added an image file to the archive that rebuild worked on.
SecondRebuild ==
    /\ prev # None
    /\ <<IndexHtml>> \in DOMAIN prev.pages
    /\ prev.pages[<<IndexHtml>>].mtime = run - 1
    /\ \A n \in Archived : images[n].mtime < run

\* C19: a rebuild that follows a completed rebuild of the same non-empty
\* archive leaves the same day, month and home pages with the same page
\* models as the first one did.
C19_RebuildIdempotent ==
    (RebuildCompleted /\ SecondRebuild) => Models(pages) = Models(prev.pages)

\* Two rebuilds in a row of an unchanged archive of two months or more.
C19_Witness ==
    /\ RebuildCompleted
    /\ SecondRebuild
    /\ \E n, m \in Archived : MonthIdx(n) # MonthIdx(m)
    /\ \A p \in DOMAIN pages : pages[p].mtime = run

====
